---- MODULE Spec2Model ----
(***************************************************************************)
(* A model of the cluster engine of sim-roach: class SimulatorService of   *)
(* src/src/services/simulatorService.ts (the definition at lines 914-1918, *)
(* the one that records replica movements and toggles regions).            *)
(*                                                                         *)
(* Node ids `n<k>` and range ids `r<k>` are modelled by the number k; the  *)
(* candidate regions are the first three of availableRegions (the ten of  *)
(* the code differ by name only).  Every `array.sort(() => 0.5 - Math.random())` is modelled as  *)
(* a choice among all orders of the array, every sort with a consistent    *)
(* comparator as the stable sort ECMAScript prescribes.  The clock read by *)
(* Date.now() is modelled by the number of operations called so far: the   *)
(* records of one call carry one timestamp, later calls a later one.  An   *)
(* absent recentMovements field is read by the code as                     *)
(* `range.recentMovements || []` and is modelled as the empty sequence.    *)
(***************************************************************************)
EXTENDS Integers, Sequences, FiniteSets, TLC

VARIABLES nodes, ranges, nextNodeId, nextRangeId, config, selectedRegions, ops, last

vars == <<nodes, ranges, nextNodeId, nextRangeId, config, selectedRegions, ops, last>>

---------------------------------------------------------------------------
(* Bounds of the exploration *)

\* addNode is explored while the cluster has fewer nodes than this
MaxNodes == 4
\* addRange is explored while the cluster has fewer ranges than this
MaxRanges == 2
\* operations explored after construction under Spec
MaxOps == 3
\* node toggles explored after construction under SpecMove
MaxMoves == 13
\* SpecRecover: the ranges of the two-node cluster, and the calls made
ManyRanges == 13
MaxRecoverOps == 3
\* SpecRepair: the ranges of the three-node cluster, and the calls made
RepairRanges == 5
MaxRepairOps == 4
\* SpecJoin: the calls made
MaxJoinOps == 1
\* SpecPlace: the calls made
MaxPlaceOps == 3
\* the configurations explored under SpecConfig: every count from 1 to its bound
MaxRegionCount == 3
MaxReplicationFactor == 3
MaxNodeCount == 4
MaxRangeCount == 2

(* Program constants *)
BaseLoad == 10
HotLoad == 80
HotRegionLoadThreshold == 40
MovementHistory == 10
MaxRebalancedRanges == 3
RebalanceQuota == 4

---------------------------------------------------------------------------
(* Helpers for arrays *)

Elems(s) == {s[i] : i \in DOMAIN s}

Max(a, b) == IF a >= b THEN a ELSE b

Min(a, b) == IF a <= b THEN a ELSE b

\* Math.ceil(a / b) for a >= 0, b > 0
CeilDiv(a, b) == (a + b - 1) \div b

\* all orders of an array: the outcomes of sort(() => 0.5 - Math.random())
Shuffles(s) ==
  LET n == Len(s)
      perms == {p \in [1..n -> 1..n] : \A i, j \in 1..n : i # j => p[i] # p[j]}
  IN {[i \in 1..n |-> s[p[i]]] : p \in perms}

\* Array.prototype.sort with a comparator a.key - b.key: ascending and stable;
\* key[i] is the key of s[i]
SortByKey(s, key) ==
  LET n == Len(s)
      rank(i) == Cardinality({j \in 1..n : key[j] < key[i] \/ (key[j] = key[i] /\ j < i)}) + 1
  IN [k \in 1..n |-> s[CHOOSE i \in 1..n : rank(i) = k]]

\* the elements of s in order of first appearance (a JavaScript Set filled from s)
RECURSIVE Uniq(_)
Uniq(s) ==
  IF s = <<>> THEN <<>>
  ELSE LET r == Uniq(SubSeq(s, 1, Len(s) - 1))
           x == s[Len(s)]
       IN IF x \in Elems(r) THEN r ELSE Append(r, x)

MapSeq(s, F(_)) == [i \in 1..Len(s) |-> F(s[i])]

---------------------------------------------------------------------------
(* Data *)

availableRegions == <<"us-east", "us-west", "eu-west">>

Zones == <<"a", "b", "c">>

Node(id, region, zone, status) ==
  [id |-> id, region |-> region, zone |-> zone, status |-> status]

\* Date.now(): the clock, which every call of an operation advances
DateNow == ops

Movement(rangeId, fromNodeId, toNodeId, isLeaseholder) ==
  [rangeId |-> rangeId, fromNodeId |-> fromNodeId, toNodeId |-> toNodeId,
   isLeaseholder |-> isLeaseholder, timestamp |-> DateNow]

SimulatorConfig(regionCount, replicationFactor, nodeCount, rangeCount) ==
  [regionCount |-> regionCount, replicationFactor |-> replicationFactor,
   nodeCount |-> nodeCount, rangeCount |-> rangeCount]

\* the fields of a SimulatorService
Service(ns, rs, nn, nr, cfg, sel) ==
  [nodes |-> ns, ranges |-> rs, nextNodeId |-> nn, nextRangeId |-> nr,
   config |-> cfg, selectedRegions |-> sel]

\* this.nodes.find(n => n.id === id) finds a node
HasNode(ns, id) == \E i \in DOMAIN ns : ns[i].id = id

\* this.nodes.find(n => n.id === id), when it finds one: the first such node
FindNode(ns, id) ==
  ns[CHOOSE i \in DOMAIN ns : ns[i].id = id /\ \A j \in 1..(i - 1) : ns[j].id # id]

\* this.nodes.findIndex / this.ranges.findIndex, when it finds one
FindIndex(s, id) ==
  CHOOSE i \in DOMAIN s : s[i].id = id /\ \A j \in 1..(i - 1) : s[j].id # id

IsOnlineId(ns, id) == HasNode(ns, id) /\ FindNode(ns, id).status = "online"

ZoneKey(n) == <<n.region, n.zone>>

---------------------------------------------------------------------------
(* Replica counts *)

\* calculateNodeReplicaCounts: replicaCounts.get(id) || 0
calculateNodeReplicaCounts(ns, rs) ==
  [id \in {ns[i].id : i \in DOMAIN ns} \cup UNION {Elems(rs[i].replicas) : i \in DOMAIN rs} |->
     Cardinality(UNION {{<<i, j>> : j \in {k \in DOMAIN rs[i].replicas : rs[i].replicas[k] = id}} :
                          i \in DOMAIN rs})]

CountOf(replicaCounts, id) == IF id \in DOMAIN replicaCounts THEN replicaCounts[id] ELSE 0

Bump(replicaCounts, id, d) ==
  [x \in DOMAIN replicaCounts \cup {id} |->
     IF x = id THEN CountOf(replicaCounts, id) + d ELSE replicaCounts[x]]

\* a bug: the list is not sorted by replica count
firstListedNode(list, replicaCounts) == list[1]

\* selectLeastLoadedNode: the first node of the list with the fewest replicas
selectLeastLoadedNode(list, replicaCounts) ==
  SortByKey(list, [i \in 1..Len(list) |-> CountOf(replicaCounts, list[i].id)])[1]

---------------------------------------------------------------------------
(* Replica Placement Selector: selectNodesForReplicas *)

\* a bug: the regions are kept in an array, one entry for every node
RegionOfEach(avail) == MapSeq(avail, LAMBDA n : n.region)

\* a bug: only the region of the first available node is seen
RegionOfFirst(avail) == IF avail = <<>> THEN <<>> ELSE <<avail[1].region>>

\* allRegions: the regions of the available nodes, in order of first appearance
RegionsOf(avail) == Uniq(MapSeq(avail, LAMBDA n : n.region))

\* allZones[region]
ZonesOf(avail, region) ==
  Uniq(MapSeq(SelectSeq(avail, LAMBDA n : n.region = region), LAMBDA n : n.zone))

\* nodesByRegion[region][zone]
NodesIn(avail, region, zone) ==
  SelectSeq(avail, LAMBDA n : n.region = region /\ n.zone = zone)

\* a bug: only the node of the first zone is ever taken
isFirstSeen(best, cand, replicaCounts) == best = <<>>

\* leastLoadedNode === null || count(leastLoadedNode) > leastLoadedCount
isLessLoaded(best, cand, replicaCounts) ==
  \/ best = <<>>
  \/ CountOf(replicaCounts, best[1].id) > CountOf(replicaCounts, cand.id)

\* the loop "for (const zone of ...)" that keeps the least loaded node seen so
\* far; best is <<>> for null, <<node>> otherwise
RECURSIVE leastLoadedAcross(_, _, _, _, _)
leastLoadedAcross(avail, region, zones, replicaCounts, best) ==
  IF zones = <<>> THEN best
  ELSE LET cand == selectLeastLoadedNode(NodesIn(avail, region, Head(zones)), replicaCounts)
           take == isLessLoaded(best, cand, replicaCounts)
       IN leastLoadedAcross(avail, region, Tail(zones), replicaCounts,
                            IF take THEN <<cand>> ELSE best)

\* a bug: the zone of the selected node is not added to usedZones
SelectedZoneForgotten(acc, n) ==
  [selected |-> Append(acc.selected, n),
   usedRegions |-> IF n.region \in Elems(acc.usedRegions) THEN acc.usedRegions
                   ELSE Append(acc.usedRegions, n.region),
   usedZones |-> acc.usedZones,
   replicaCounts |-> Bump(acc.replicaCounts, n.id, 1)]

\* selectedNodes.push(node) with usedRegions, usedZones and replicaCounts updated
Selected(acc, n) ==
  [selected |-> Append(acc.selected, n),
   usedRegions |-> IF n.region \in Elems(acc.usedRegions) THEN acc.usedRegions
                   ELSE Append(acc.usedRegions, n.region),
   usedZones |-> acc.usedZones \cup {ZoneKey(n)},
   replicaCounts |-> Bump(acc.replicaCounts, n.id, 1)]

\* 3. one node from each of the first replicationFactor shuffled regions
RECURSIVE onePerShuffledRegion(_, _, _, _)
onePerShuffledRegion(avail, regions, replicationFactor, acc) ==
  IF regions = <<>> THEN acc
  ELSE LET best == leastLoadedAcross(avail, Head(regions), ZonesOf(avail, Head(regions)),
                                     acc.replicaCounts, <<>>)
           acc2 == IF best # <<>> THEN Selected(acc, best[1]) ELSE acc
       IN IF Len(acc2.selected) = replicationFactor THEN acc2
          ELSE onePerShuffledRegion(avail, Tail(regions), replicationFactor, acc2)

\* 4. first, one node from each available region
RECURSIVE onePerAvailableRegion(_, _, _, _)
onePerAvailableRegion(avail, regions, replicationFactor, acc) ==
  IF regions = <<>> THEN acc
  ELSE LET region == Head(regions)
           zonesInRegion == ZonesOf(avail, region)
           unusedZones == SelectSeq(zonesInRegion, LAMBDA z : <<region, z>> \notin acc.usedZones)
           best == leastLoadedAcross(avail, region,
                                     IF Len(unusedZones) > 0 THEN unusedZones ELSE zonesInRegion,
                                     acc.replicaCounts, <<>>)
       IN IF best # <<>>
          THEN LET acc2 == Selected(acc, best[1])
               IN IF Len(acc2.selected) = replicationFactor THEN acc2
                  ELSE onePerAvailableRegion(avail, Tail(regions), replicationFactor, acc2)
          ELSE onePerAvailableRegion(avail, Tail(regions), replicationFactor, acc)

\* 5. the inner loop over the zones of one used region
RECURSIVE fillUnusedZones(_, _, _, _, _)
fillUnusedZones(avail, region, zones, replicationFactor, acc) ==
  IF zones = <<>> THEN acc
  ELSE IF <<region, Head(zones)>> \notin acc.usedZones /\ Len(NodesIn(avail, region, Head(zones))) > 0
       THEN LET n == selectLeastLoadedNode(NodesIn(avail, region, Head(zones)), acc.replicaCounts)
                acc2 == [Selected(acc, n) EXCEPT !.usedRegions = acc.usedRegions]
            IN IF Len(acc2.selected) = replicationFactor THEN acc2
               ELSE fillUnusedZones(avail, region, Tail(zones), replicationFactor, acc2)
       ELSE fillUnusedZones(avail, region, Tail(zones), replicationFactor, acc)

\* 5. the outer loop over the shuffled used regions
RECURSIVE fillUsedRegions(_, _, _, _)
fillUsedRegions(avail, regions, replicationFactor, acc) ==
  IF regions = <<>> THEN acc
  ELSE LET acc2 == fillUnusedZones(avail, Head(regions), ZonesOf(avail, Head(regions)),
                                   replicationFactor, acc)
       IN IF Len(acc2.selected) = replicationFactor THEN acc2
          ELSE fillUsedRegions(avail, Tail(regions), replicationFactor, acc2)

\* 6. last resort: the least loaded of the nodes not selected yet
lastResort(avail, replicationFactor, acc) ==
  LET remainingNodes == SelectSeq(avail, LAMBDA n : \A k \in DOMAIN acc.selected :
                                                      acc.selected[k].id # n.id)
      sortedNodes == SortByKey(remainingNodes,
                               [i \in 1..Len(remainingNodes) |->
                                  CountOf(acc.replicaCounts, remainingNodes[i].id)])
      additionalNodes == SubSeq(sortedNodes, 1,
                                Min(Len(sortedNodes), replicationFactor - Len(acc.selected)))
  IN acc.selected \o additionalNodes

\* the lists of nodes selectNodesForReplicas can return
selectNodesForReplicas(availableNodes, replicationFactor, ns, rs) ==
  LET allRegions == RegionsOf(availableNodes)
      start == [selected |-> <<>>, usedRegions |-> <<>>, usedZones |-> {},
                replicaCounts |-> calculateNodeReplicaCounts(ns, rs)]
  IN IF Len(allRegions) >= replicationFactor
     THEN {onePerShuffledRegion(availableNodes, SubSeq(shuffled, 1, replicationFactor),
                                replicationFactor, start).selected :
             shuffled \in Shuffles(allRegions)}
     ELSE LET first == onePerAvailableRegion(availableNodes, allRegions, replicationFactor, start)
          IN {LET second == IF Len(first.selected) < replicationFactor
                            THEN fillUsedRegions(availableNodes, regionsToConsider,
                                                 replicationFactor, first)
                            ELSE first
              IN IF Len(second.selected) < replicationFactor
                 THEN lastResort(availableNodes, replicationFactor, second)
                 ELSE second.selected :
                regionsToConsider \in Shuffles(first.usedRegions)}

---------------------------------------------------------------------------
(* addRange *)

\* a bug: only the online nodes of the region are counted
OnlinePopularity(ns, region) ==
  Cardinality({i \in DOMAIN ns : ns[i].region = region /\ ns[i].status = "online"})

\* regionCounts[region]: the number of cluster nodes in the region
RegionPopularity(ns, region) == Cardinality({i \in DOMAIN ns : ns[i].region = region})

\* sortedForLeaseholder[0]: the selected node of the most populated region
chooseLeaseholder(ns, selectedNodes) ==
  SortByKey(selectedNodes,
            [i \in 1..Len(selectedNodes) |-> 0 - RegionPopularity(ns, selectedNodes[i].region)])[1]

\* a bug: the test is <= for <
atMostEnoughNodes(onlineNodes, replicationFactor) == Len(onlineNodes) <= replicationFactor

\* onlineNodes.length < replicationFactor
notEnoughNodes(onlineNodes, replicationFactor) == Len(onlineNodes) < replicationFactor

\* a bug: the range id is taken before the test that throws
rejectedAfterTakingId(S) == [ok |-> FALSE, service |-> [S EXCEPT !.nextRangeId = @ + 1]]

\* throw new Error(...): nothing has been assigned yet
rejected(S) == [ok |-> FALSE, service |-> S]

\* a bug: the replicas are selected among all nodes, offline ones included
addRangeOnAnyNode(S) ==
  LET onlineNodes == SelectSeq(S.nodes, LAMBDA n : n.status = "online")
      replicationFactor == S.config.replicationFactor
  IN IF notEnoughNodes(onlineNodes, replicationFactor)
     THEN {rejected(S)}
     ELSE {LET newRange == [id |-> S.nextRangeId,
                            replicas |-> MapSeq(selectedNodes, LAMBDA n : n.id),
                            leaseholder |-> chooseLeaseholder(S.nodes, selectedNodes).id,
                            load |-> BaseLoad,
                            recentMovements |-> <<>>]
           IN [ok |-> TRUE,
               service |-> [S EXCEPT !.ranges = Append(@, newRange),
                                     !.nextRangeId = @ + 1]] :
             selectedNodes \in selectNodesForReplicas(S.nodes, replicationFactor,
                                                      S.nodes, S.ranges)}

\* the outcomes of addRange(): it throws (ok is FALSE) or returns newRange
addRange(S) ==
  LET onlineNodes == SelectSeq(S.nodes, LAMBDA n : n.status = "online")
      replicationFactor == S.config.replicationFactor
  IN IF notEnoughNodes(onlineNodes, replicationFactor)
     THEN {rejected(S)}
     ELSE {LET newRange == [id |-> S.nextRangeId,
                            replicas |-> MapSeq(selectedNodes, LAMBDA n : n.id),
                            leaseholder |-> chooseLeaseholder(S.nodes, selectedNodes).id,
                            load |-> BaseLoad,
                            recentMovements |-> <<>>]
           IN [ok |-> TRUE,
               service |-> [S EXCEPT !.ranges = Append(@, newRange),
                                     !.nextRangeId = @ + 1]] :
             selectedNodes \in selectNodesForReplicas(onlineNodes, replicationFactor,
                                                      S.nodes, S.ranges)}

---------------------------------------------------------------------------
(* Topology Generator: initializeCluster and updateConfig *)

\* selectRandomRegions: the first count regions of a shuffle of the pool
selectRandomRegions(count) ==
  {SubSeq(shuffled, 1, Min(count, Len(availableRegions))) :
     shuffled \in Shuffles(availableRegions)}

\* a bug: every region gets the target, whatever is left of nodeCount
alwaysTarget(nodeId, targetNodesPerRegion, nodeCount) == targetNodesPerRegion

\* nodesForThisRegion
nodesForThisRegion(nodeId, targetNodesPerRegion, nodeCount) ==
  IF nodeId + targetNodesPerRegion <= nodeCount + 1
  THEN targetNodesPerRegion
  ELSE Max(0, nodeCount - nodeId + 1)

\* a bug: the nodes past the last zone all go to the last zone
lastZoneAtMost(i, zones) == Min(i, Len(zones) - 1)

\* zoneIndex = i % region.zones.length, i counting from 0
zoneIndex(i, zones) == i % Len(zones)

\* the forEach of createInitialNodes from the k-th selected region on;
\* the result is <<this.nodes, nodeId>>
RECURSIVE createNodesFrom(_, _, _, _, _)
createNodesFrom(sel, k, nodeId, acc, cfg) ==
  IF k > Len(sel) THEN <<acc, nodeId>>
  ELSE LET targetNodesPerRegion == CeilDiv(cfg.nodeCount, Len(sel))
           count == nodesForThisRegion(nodeId, targetNodesPerRegion, cfg.nodeCount)
           created == [i \in 1..count |->
                         Node(nodeId + i - 1, sel[k], Zones[zoneIndex(i - 1, Zones) + 1], "online")]
       IN createNodesFrom(sel, k + 1, nodeId + count, acc \o created, cfg)

\* a bug: this.nextNodeId is not advanced past the nodes created
createInitialNodesOnly(S) ==
  [S EXCEPT !.nodes = createNodesFrom(S.selectedRegions, 1, 1, S.nodes, S.config)[1]]

createInitialNodes(S) ==
  LET made == createNodesFrom(S.selectedRegions, 1, 1, S.nodes, S.config)
  IN [S EXCEPT !.nodes = made[1], !.nextNodeId = made[2]]

\* createInitialRanges from its i-th iteration on: outcomes [ok, service]
RECURSIVE createRangesFrom(_, _)
createRangesFrom(S, i) ==
  IF i > S.config.rangeCount THEN {[ok |-> TRUE, service |-> S]}
  ELSE UNION {IF o.ok THEN createRangesFrom(o.service, i + 1) ELSE {o} : o \in addRange(S)}

createInitialRanges(S) == createRangesFrom(S, 1)

\* initializeCluster with this.config = cfg: outcomes [ok, service]
initializeCluster(cfg) ==
  UNION {createInitialRanges(createInitialNodes(Service(<<>>, <<>>, 1, 1, cfg, sel))) :
           sel \in selectRandomRegions(cfg.regionCount)}

\* getNodes() and getRanges(): copies of the arrays
getNodes(S) == S.nodes

getRanges(S) == S.ranges

\* updateConfig(newConfig): this.config is assigned, then the cluster is rebuilt
updateConfig(S, newConfig) == initializeCluster(newConfig)

---------------------------------------------------------------------------
(* Movement history *)

\* a bug: slice(0, 10), which keeps the oldest records
recordAndKeepOldest(rangeId, fromNodeId, toNodeId, isLeaseholder, currentMovements) ==
  LET movements == Append(currentMovements,
                          Movement(rangeId, fromNodeId, toNodeId, isLeaseholder))
  IN SubSeq(movements, 1, Min(Len(movements), MovementHistory))

\* recordReplicaMovement: push, then slice(-10)
recordReplicaMovement(rangeId, fromNodeId, toNodeId, isLeaseholder, currentMovements) ==
  LET movements == Append(currentMovements,
                          Movement(rangeId, fromNodeId, toNodeId, isLeaseholder))
  IN SubSeq(movements, Max(1, Len(movements) - MovementHistory + 1), Len(movements))

---------------------------------------------------------------------------
(* Failure Migrator: migrateLeaseholdersFromOfflineNode *)

\* a bug: the replicas of the range are not left out
AnyOnlineNodes(ns, currentReplicas) == SelectSeq(ns, LAMBDA n : n.status = "online")

\* availableReplaceNodes: the online nodes that are not replicas of the range
AvailableReplaceNodes(ns, currentReplicas) ==
  SelectSeq(ns, LAMBDA n : n.status = "online" /\ n.id \notin Elems(currentReplicas))

\* a bug: the failed node is taken out and the replacement is added at the end
appendReplacement(currentReplicas, nodeId, replacementId) ==
  Append(SelectSeq(currentReplicas, LAMBDA id : id # nodeId), replacementId)

\* newReplicas: the replacement takes the slot of the failed node
replaceSlot(currentReplicas, nodeId, replacementId) ==
  MapSeq(currentReplicas, LAMBDA id : IF id = nodeId THEN replacementId ELSE id)

\* onlineReplicaIds: the other replicas of the range that are online
onlineReplicaIds(currentReplicas, ns, nodeId) ==
  SelectSeq(currentReplicas, LAMBDA id : id # nodeId /\ IsOnlineId(ns, id))

\* a bug: the test is left out and every range is processed
everyRange(range, nodeId) == TRUE

\* range.replicas.includes(nodeId)
hasReplicaOn(range, nodeId) == nodeId \in Elems(range.replicas)

\* the body of this.ranges.forEach((range, index) => ...) for one index:
\* this.ranges afterwards
migrateRange(ns, rs, index, nodeId) ==
  LET range == rs[index]
      offlineNode == FindNode(ns, nodeId)
      currentReplicas == range.replicas
      \* 1. leaseholder migration
      onlineIds == onlineReplicaIds(currentReplicas, ns, nodeId)
      replicaNodes == MapSeq(onlineIds, LAMBDA id : FindNode(ns, id))
      differentRegionReplicas == SelectSeq(replicaNodes,
                                           LAMBDA n : n.region # offlineNode.region)
      leaseholderChanged == /\ range.leaseholder = nodeId
                            /\ Len(onlineIds) > 0
                            /\ (Len(differentRegionReplicas) > 0 \/ Len(replicaNodes) > 0)
      newLeaseholder == IF ~leaseholderChanged THEN range.leaseholder
                        ELSE IF Len(differentRegionReplicas) > 0
                             THEN differentRegionReplicas[1].id
                             ELSE replicaNodes[1].id
      leaseMovements == IF leaseholderChanged
                        THEN recordReplicaMovement(range.id, nodeId, newLeaseholder, TRUE,
                                                   range.recentMovements)
                        ELSE range.recentMovements
      \* 2. replacement of the replica
      availableReplaceNodes == AvailableReplaceNodes(ns, currentReplicas)
      existingReplicaNodes == MapSeq(SelectSeq(currentReplicas,
                                               LAMBDA id : id # nodeId /\ HasNode(ns, id)),
                                     LAMBDA id : FindNode(ns, id))
      existingRegions == {existingReplicaNodes[k].region : k \in DOMAIN existingReplicaNodes}
      existingZones == {ZoneKey(existingReplicaNodes[k]) : k \in DOMAIN existingReplicaNodes}
      replicaCounts == calculateNodeReplicaCounts(ns, rs)
      nodesInNewRegions == SelectSeq(availableReplaceNodes,
                                     LAMBDA n : n.region \notin existingRegions)
      nodesInNewZones == SelectSeq(availableReplaceNodes,
                                   LAMBDA n : ZoneKey(n) \notin existingZones)
      replacementNode ==
        IF Len(nodesInNewRegions) > 0 THEN selectLeastLoadedNode(nodesInNewRegions, replicaCounts)
        ELSE IF Len(nodesInNewZones) > 0 THEN selectLeastLoadedNode(nodesInNewZones, replicaCounts)
        ELSE selectLeastLoadedNode(availableReplaceNodes, replicaCounts)
      newReplicas == replaceSlot(currentReplicas, nodeId, replacementNode.id)
  IN IF ~hasReplicaOn(range, nodeId) THEN rs
     ELSE IF Len(availableReplaceNodes) > 0
     THEN [rs EXCEPT ![index] =
             [range EXCEPT !.replicas = newReplicas,
                           !.leaseholder = newLeaseholder,
                           !.recentMovements =
                              recordReplicaMovement(range.id, nodeId, replacementNode.id,
                                                    FALSE, leaseMovements)]]
     ELSE IF range.leaseholder = nodeId /\ newLeaseholder # nodeId
     THEN [rs EXCEPT ![index] = [range EXCEPT !.leaseholder = newLeaseholder,
                                              !.recentMovements = leaseMovements]]
     ELSE rs

RECURSIVE migrateFrom(_, _, _, _)
migrateFrom(ns, rs, index, nodeId) ==
  IF index > Len(rs) THEN rs
  ELSE migrateFrom(ns, migrateRange(ns, rs, index, nodeId), index + 1, nodeId)

\* this.ranges after migrateLeaseholdersFromOfflineNode(nodeId)
migrateLeaseholdersFromOfflineNode(ns, rs, nodeId) ==
  IF ~HasNode(ns, nodeId) THEN rs ELSE migrateFrom(ns, rs, 1, nodeId)

---------------------------------------------------------------------------
(* Recovery Rebalancer: rebalanceToOnlineNode *)

OnlineReplicas(ns, range) == SelectSeq(range.replicas, LAMBDA id : IsOnlineId(ns, id))

\* a bug: a range that misses one online replica is not seen
underReplicatedByTwo(ns, range, replicationFactor) ==
  Len(OnlineReplicas(ns, range)) < replicationFactor - 1

IsUnderReplicated(ns, range, replicationFactor) ==
  Len(OnlineReplicas(ns, range)) < replicationFactor

\* the loop "for (const replacedNodeId of replacedNodeIds)"
RECURSIVE recordReplaced(_, _, _, _)
recordReplaced(rangeId, replacedNodeIds, nodeId, movements) ==
  IF replacedNodeIds = <<>> THEN movements
  ELSE recordReplaced(rangeId, Tail(replacedNodeIds), nodeId,
                      IF Head(replacedNodeIds) # nodeId
                      THEN recordReplicaMovement(rangeId, Head(replacedNodeIds), nodeId,
                                                 FALSE, movements)
                      ELSE movements)

\* a bug: the offline replicas are not kept to fill the list
keepOnlineOnly(range, onlineReplicas, replicationFactor, nodeId) ==
  Append(onlineReplicas, nodeId)

\* newReplicas: the online replicas, the node, and offline replicas up to
\* replicationFactor entries
keepOnlineAndFill(range, onlineReplicas, replicationFactor, nodeId) ==
  LET kept == Append(onlineReplicas, nodeId)
      offlineReplicas == SelectSeq(range.replicas, LAMBDA id : id \notin Elems(onlineReplicas))
  IN IF Len(kept) < replicationFactor
     THEN kept \o SubSeq(offlineReplicas, 1,
                         Min(Len(offlineReplicas), replicationFactor - Len(kept)))
     ELSE kept

\* a bug: the leaseholder is kept when it is a replica, online or not
keepLeaseholderOfReplicas(range, onlineReplicas, nodeId) ==
  IF range.leaseholder \in Elems(range.replicas) THEN range.leaseholder ELSE nodeId

\* newLeaseholder: onlineReplicas.includes(oldLeaseholder) ? oldLeaseholder : nodeId
leaseholderAfterRepair(range, onlineReplicas, nodeId) ==
  IF range.leaseholder \in Elems(onlineReplicas) THEN range.leaseholder ELSE nodeId

\* the body of underReplicatedRanges.forEach for one range: the range afterwards
repairRange(ns, range, replicationFactor, nodeId) ==
  LET onlineReplicas == OnlineReplicas(ns, range)
      newReplicas == keepOnlineAndFill(range, onlineReplicas, replicationFactor, nodeId)
      replacedNodeIds == SelectSeq(range.replicas, LAMBDA id : id \notin Elems(newReplicas))
      replicaMovements == recordReplaced(range.id, replacedNodeIds, nodeId, range.recentMovements)
      oldLeaseholder == range.leaseholder
      newLeaseholder == leaseholderAfterRepair(range, onlineReplicas, nodeId)
      updatedMovements == IF oldLeaseholder # newLeaseholder
                          THEN recordReplicaMovement(range.id, oldLeaseholder, newLeaseholder,
                                                     TRUE, replicaMovements)
                          ELSE replicaMovements
  IN IF nodeId \in Elems(range.replicas) THEN range
     ELSE IF Len(onlineReplicas) < replicationFactor
     THEN [range EXCEPT !.replicas = newReplicas,
                        !.leaseholder = newLeaseholder,
                        !.recentMovements = updatedMovements]
     ELSE range

\* the body of rangesToRebalance.forEach for one range: the range afterwards
moveReplicaTo(ns, range, overloaded, nodeId) ==
  LET replicaNodes == MapSeq(SelectSeq(range.replicas, LAMBDA id : HasNode(ns, id)),
                             LAMBDA id : FindNode(ns, id))
      regionCount(region) == Cardinality({k \in DOMAIN replicaNodes :
                                            replicaNodes[k].region = region})
      overloadedReplicas == SelectSeq(range.replicas, LAMBDA id : id \in overloaded)
      overrepRegionReplicas ==
        SelectSeq(overloadedReplicas,
                  LAMBDA id : HasNode(ns, id) /\ regionCount(FindNode(ns, id).region) > 1)
      preferred == IF Len(overrepRegionReplicas) > 0 THEN overrepRegionReplicas
                   ELSE overloadedReplicas
      nonLeaseholder == SelectSeq(preferred, LAMBDA id : id # range.leaseholder)
      replicaToReplace == IF Len(nonLeaseholder) > 0 THEN nonLeaseholder[1] ELSE preferred[1]
      newReplicas == MapSeq(range.replicas,
                            LAMBDA id : IF id = replicaToReplace THEN nodeId ELSE id)
      moved == recordReplicaMovement(range.id, replicaToReplace, nodeId, FALSE,
                                     range.recentMovements)
      isLeaseholderChanging == range.leaseholder = replicaToReplace
  IN IF Len(overloadedReplicas) = 0 THEN range
     ELSE [range EXCEPT
             !.replicas = newReplicas,
             !.leaseholder = IF isLeaseholderChanging THEN nodeId ELSE range.leaseholder,
             !.recentMovements =
                IF isLeaseholderChanging
                THEN recordReplicaMovement(range.id, replicaToReplace, nodeId, TRUE, moved)
                ELSE moved]

RECURSIVE moveReplicasTo(_, _, _, _, _)
moveReplicasTo(ns, rs, indexes, overloaded, nodeId) ==
  IF indexes = <<>> THEN rs
  ELSE moveReplicasTo(ns,
                      [rs EXCEPT ![Head(indexes)] =
                         moveReplicaTo(ns, rs[Head(indexes)], overloaded, nodeId)],
                      Tail(indexes), overloaded, nodeId)

\* the indexes 1..n in ascending order that satisfy Test
IndexesWhere(n, Test(_)) == SelectSeq([i \in 1..n |-> i], Test)

\* the arrays that s.sort(() => 0.5 - Math.random()).slice(0, n) can give
RECURSIVE firstOfShuffled(_, _)
firstOfShuffled(s, n) ==
  IF n = 0 \/ s = <<>> THEN {<<>>}
  ELSE UNION {{<<s[i]>> \o rest :
                 rest \in firstOfShuffled(SelectSeq(s, LAMBDA x : x # s[i]), n - 1)} :
              i \in DOMAIN s}

\* a bug: one range at most is rebalanced
oneAtMost(candidateCount) == Min(1, candidateCount)

\* a bug: the number of ranges to rebalance is not capped
quarterOfCandidates(candidateCount) == CeilDiv(candidateCount, RebalanceQuota)

\* maxRangesToRebalance = Math.min(3, Math.ceil(candidateRanges.length / 4))
maxRangesToRebalance(candidateCount) ==
  Min(MaxRebalancedRanges, CeilDiv(candidateCount, RebalanceQuota))

\* a bug: the secondary pass runs after the repair of under-replicated ranges too
always(underReplicatedCount) == TRUE

\* the guard of the secondary pass: underReplicatedRanges.length === 0
noneUnderReplicated(underReplicatedCount) == underReplicatedCount = 0

\* the values this.ranges can have after rebalanceToOnlineNode(nodeId)
rebalanceToOnlineNode(ns, rs, replicationFactor, nodeId) ==
  IF ~IsOnlineId(ns, nodeId) THEN {rs}
  ELSE
  LET underReplicated == {i \in DOMAIN rs : IsUnderReplicated(ns, rs[i], replicationFactor)}
      repaired == [i \in DOMAIN rs |-> IF i \in underReplicated
                                       THEN repairRange(ns, rs[i], replicationFactor, nodeId)
                                       ELSE rs[i]]
      \* the counts are kept up to date while the ranges are repaired
      replicaCounts == calculateNodeReplicaCounts(ns, repaired)
      overloaded == {ns[k].id : k \in {j \in DOMAIN ns :
                        /\ ns[j].status = "online"
                        /\ ns[j].id # nodeId
                        /\ CountOf(replicaCounts, ns[j].id) > CountOf(replicaCounts, nodeId) + 1}}
      candidateRanges == IndexesWhere(Len(rs), LAMBDA i :
                            /\ nodeId \notin Elems(repaired[i].replicas)
                            /\ \E k \in DOMAIN repaired[i].replicas :
                                  repaired[i].replicas[k] \in overloaded)
  IN IF ~noneUnderReplicated(Cardinality(underReplicated)) THEN {repaired}
     ELSE IF overloaded = {} THEN {repaired}
     ELSE {moveReplicasTo(ns, repaired, rangesToRebalance, overloaded, nodeId) :
             rangesToRebalance \in firstOfShuffled(candidateRanges,
                                      maxRangesToRebalance(Len(candidateRanges)))}

---------------------------------------------------------------------------
(* addNode's rebalance pass: rebalanceReplicas *)

\* getNodeWithMostReplicas: <<>> for null, else <<the first id with the most replicas>>
RECURSIVE mostReplicasFrom(_, _, _, _)
mostReplicasFrom(nodeIds, replicaCounts, maxCount, nodeWithMax) ==
  IF nodeIds = <<>> THEN nodeWithMax
  ELSE IF CountOf(replicaCounts, Head(nodeIds)) > maxCount
       THEN mostReplicasFrom(Tail(nodeIds), replicaCounts,
                             CountOf(replicaCounts, Head(nodeIds)), <<Head(nodeIds)>>)
       ELSE mostReplicasFrom(Tail(nodeIds), replicaCounts, maxCount, nodeWithMax)

getNodeWithMostReplicas(nodeIds, replicaCounts) ==
  mostReplicasFrom(nodeIds, replicaCounts, 0 - 1, <<>>)

\* the entry pushed for one range by the loop over Object.entries(regionsCount):
\* <<>> if none
crowdedRegionEntry(ns, range, rangeIndex, newNode, replicaCounts) ==
  LET replicaNodes == MapSeq(SelectSeq(range.replicas, LAMBDA id : HasNode(ns, id)),
                             LAMBDA id : FindNode(ns, id))
      regions == Uniq(MapSeq(replicaNodes, LAMBDA n : n.region))
      idsIn(region) == MapSeq(SelectSeq(replicaNodes, LAMBDA n : n.region = region),
                              LAMBDA n : n.id)
      crowded == SelectSeq(regions, LAMBDA region : /\ Len(idsIn(region)) > 1
                                                    /\ newNode.region # region)
  IN IF Len(crowded) = 0 THEN <<>>
     ELSE <<[rangeIndex |-> rangeIndex,
             nodeToReplace |-> getNodeWithMostReplicas(idsIn(crowded[1]), replicaCounts)[1]]>>

\* rangesToRebalance after the forEach has visited the ranges from rangeIndex on
RECURSIVE collectRebalance(_, _, _, _, _, _)
collectRebalance(ns, rs, rangeIndex, newNode, replicaCounts, rangesToRebalance) ==
  IF rangeIndex > Len(rs) THEN rangesToRebalance
  ELSE LET crowded == crowdedRegionEntry(ns, rs[rangeIndex], rangeIndex, newNode, replicaCounts)
           afterCrowded == rangesToRebalance \o crowded
           fallback == getNodeWithMostReplicas(rs[rangeIndex].replicas, replicaCounts)
           \* rangeIndex counts from 0 in the code
           afterFallback == IF Len(afterCrowded) <= rangeIndex - 1 /\ fallback # <<>>
                            THEN Append(afterCrowded, [rangeIndex |-> rangeIndex,
                                                       nodeToReplace |-> fallback[1]])
                            ELSE afterCrowded
       IN collectRebalance(ns, rs, rangeIndex + 1, newNode, replicaCounts, afterFallback)

RECURSIVE performRebalance(_, _, _)
performRebalance(rs, selectedRanges, newNode) ==
  IF selectedRanges = <<>> THEN rs
  ELSE LET e == Head(selectedRanges)
           range == rs[e.rangeIndex]
       IN performRebalance(
            [rs EXCEPT ![e.rangeIndex] =
               [range EXCEPT
                  !.replicas = MapSeq(range.replicas,
                                      LAMBDA id : IF id = e.nodeToReplace THEN newNode.id ELSE id),
                  !.leaseholder = IF range.leaseholder = e.nodeToReplace THEN newNode.id
                                  ELSE range.leaseholder]],
            Tail(selectedRanges), newNode)

\* the values this.ranges can have after rebalanceReplicas()
rebalanceReplicas(ns, rs) ==
  LET newNode == ns[Len(ns)]
      replicaCounts == calculateNodeReplicaCounts(ns, rs)
      rangesToRebalance == collectRebalance(ns, rs, 1, newNode, replicaCounts, <<>>)
  IN IF newNode.status # "online" THEN {rs}
     ELSE {performRebalance(rs, selectedRanges, newNode) :
             selectedRanges \in firstOfShuffled(rangesToRebalance,
                                                maxRangesToRebalance(Len(rs)))}

---------------------------------------------------------------------------
(* Hot-range marking *)

\* calculateRegionLoad: the load of the ranges whose leaseholder is in the region
RECURSIVE regionLoadFrom(_, _, _, _)
regionLoadFrom(ns, rs, index, region) ==
  IF index > Len(rs) THEN 0
  ELSE (IF /\ HasNode(ns, rs[index].leaseholder)
           /\ FindNode(ns, rs[index].leaseholder).region = region
        THEN rs[index].load ELSE 0) + regionLoadFrom(ns, rs, index + 1, region)

calculateRegionLoad(ns, rs, region) == regionLoadFrom(ns, rs, 1, region)

\* this.ranges after balanceHotRange(rangeId), for a range that exists
balanceHotRange(ns, rs, rangeId) ==
  LET rangeIndex == FindIndex(rs, rangeId)
      range == rs[rangeIndex]
      onlineReplicaNodes == MapSeq(OnlineReplicas(ns, range), LAMBDA id : FindNode(ns, id))
      currentLeaseholderNode == FindNode(ns, range.leaseholder)
      regionLoad == calculateRegionLoad(ns, rs, currentLeaseholderNode.region)
      replicasByRegionLoad ==
        SortByKey(onlineReplicaNodes,
                  [i \in 1..Len(onlineReplicaNodes) |->
                     calculateRegionLoad(ns, rs, onlineReplicaNodes[i].region)])
  IN IF Len(onlineReplicaNodes) <= 1 THEN rs
     ELSE IF ~HasNode(ns, range.leaseholder) THEN rs
     ELSE IF regionLoad > HotRegionLoadThreshold /\ replicasByRegionLoad[1].id # range.leaseholder
     THEN [rs EXCEPT ![rangeIndex].leaseholder = replicasByRegionLoad[1].id]
     ELSE rs

\* a bug: the load of every range is raised
markEveryRangeHot(S, rangeId) ==
  IF \A i \in DOMAIN S.ranges : S.ranges[i].id # rangeId THEN S
  ELSE LET hot == [i \in DOMAIN S.ranges |-> [S.ranges[i] EXCEPT !.load = HotLoad]]
       IN [S EXCEPT !.ranges = balanceHotRange(S.nodes, hot, rangeId)]

\* a bug: an index of -1 is taken from the end, as Array.prototype.at does
markLastWhenMissing(S, rangeId) ==
  IF S.ranges = <<>> THEN S
  ELSE LET rangeIndex == IF \A i \in DOMAIN S.ranges : S.ranges[i].id # rangeId
                         THEN Len(S.ranges) ELSE FindIndex(S.ranges, rangeId)
           hot == [S.ranges EXCEPT ![rangeIndex].load = HotLoad]
       IN [S EXCEPT !.ranges = balanceHotRange(S.nodes, hot, S.ranges[rangeIndex].id)]

\* the service after markRangeHot(rangeId)
markRangeHot(S, rangeId) ==
  IF \A i \in DOMAIN S.ranges : S.ranges[i].id # rangeId THEN S
  ELSE LET rangeIndex == FindIndex(S.ranges, rangeId)
           hot == [S.ranges EXCEPT ![rangeIndex].load = HotLoad]
       IN [S EXCEPT !.ranges = balanceHotRange(S.nodes, hot, rangeId)]

---------------------------------------------------------------------------
(* Node and region toggles, addNode *)

\* a bug: the node is rebuilt from its id and the new status, the spread of the
\* other fields is forgotten
statusOnly(node, newStatus) == Node(node.id, "", "", newStatus)

\* { ...this.nodes[nodeIndex], status: newStatus }
withStatus(node, newStatus) == [node EXCEPT !.status = newStatus]

\* the services toggleNodeStatus(nodeId) can leave
toggleNodeStatus(S, nodeId) ==
  IF ~HasNode(S.nodes, nodeId) THEN {S}
  ELSE LET nodeIndex == FindIndex(S.nodes, nodeId)
           newStatus == IF S.nodes[nodeIndex].status = "online" THEN "offline" ELSE "online"
           ns == [S.nodes EXCEPT ![nodeIndex] = withStatus(S.nodes[nodeIndex], newStatus)]
       IN IF newStatus = "offline"
          THEN {[S EXCEPT !.nodes = ns,
                          !.ranges = migrateLeaseholdersFromOfflineNode(ns, S.ranges, nodeId)]}
          ELSE {[S EXCEPT !.nodes = ns, !.ranges = rs] :
                  rs \in rebalanceToOnlineNode(ns, S.ranges, S.config.replicationFactor, nodeId)}

\* regionNodes.forEach(node => this.migrateLeaseholdersFromOfflineNode(node.id))
RECURSIVE migrateEach(_, _, _)
migrateEach(ns, rs, regionNodes) ==
  IF regionNodes = <<>> THEN rs
  ELSE migrateEach(ns, migrateLeaseholdersFromOfflineNode(ns, rs, Head(regionNodes).id),
                   Tail(regionNodes))

\* regionNodes.forEach(node => this.rebalanceToOnlineNode(node.id)): the values
\* this.ranges can have afterwards
RECURSIVE rebalanceEach(_, _, _, _)
rebalanceEach(ns, rss, replicationFactor, regionNodes) ==
  IF regionNodes = <<>> THEN rss
  ELSE rebalanceEach(ns,
                     UNION {rebalanceToOnlineNode(ns, rs, replicationFactor,
                                                  Head(regionNodes).id) : rs \in rss},
                     replicationFactor, Tail(regionNodes))

\* a bug: the region counts as offline only when all its nodes are offline
everyNodeOffline(regionNodes) ==
  \A k \in DOMAIN regionNodes : regionNodes[k].status = "offline"

\* isRegionOffline: regionNodes.some(node => node.status === 'offline')
isRegionOffline(regionNodes) ==
  \E k \in DOMAIN regionNodes : regionNodes[k].status = "offline"

\* a bug: only the first node of the region gets the new status
setFirstStatus(ns, regionName, newStatus) ==
  [i \in DOMAIN ns |->
     IF ns[i].region = regionName /\ \A j \in 1..(i - 1) : ns[j].region # regionName
     THEN withStatus(ns[i], newStatus)
     ELSE ns[i]]

\* this.nodes after regionNodes.forEach(node => ... status: newStatus ...)
setRegionStatus(ns, regionName, newStatus) ==
  [i \in DOMAIN ns |->
     IF ns[i].region = regionName THEN withStatus(ns[i], newStatus) ELSE ns[i]]

\* the services toggleRegionStatus(regionName) can leave
toggleRegionStatus(S, regionName) ==
  LET regionNodes == SelectSeq(S.nodes, LAMBDA n : n.region = regionName)
      newStatus == IF isRegionOffline(regionNodes) THEN "online" ELSE "offline"
      ns == setRegionStatus(S.nodes, regionName, newStatus)
  IN IF newStatus = "offline"
     THEN {[S EXCEPT !.nodes = ns, !.ranges = migrateEach(ns, S.ranges, regionNodes)]}
     ELSE {[S EXCEPT !.nodes = ns, !.ranges = rs] :
             rs \in rebalanceEach(ns, {S.ranges}, S.config.replicationFactor, regionNodes)}

\* the outcomes of addNode() when getRandomRegion() and getRandomZone() return
\* region and zone: the service left and the node returned
addNode(S, region, zone) ==
  LET newNode == Node(S.nextNodeId, region, zone, "online")
      ns == Append(S.nodes, newNode)
  IN {[service |-> [S EXCEPT !.nodes = ns, !.nextNodeId = @ + 1, !.ranges = rs],
       returned |-> newNode] :
        rs \in rebalanceReplicas(ns, S.ranges)}

---------------------------------------------------------------------------
(* The state machine.  `last` records the latest call of the public        *)
(* interface: its name, its argument, whether it returned (ok) or threw,   *)
(* what it returned, and the service as it was when the call was made.     *)

\* the service as it is now
Here == Service(nodes, ranges, nextNodeId, nextRangeId, config, selectedRegions)

Becomes(S) ==
  /\ nodes' = S.nodes
  /\ ranges' = S.ranges
  /\ nextNodeId' = S.nextNodeId
  /\ nextRangeId' = S.nextRangeId
  /\ config' = S.config
  /\ selectedRegions' = S.selectedRegions

Called(op, arg, ok, returned) ==
  last' = [op |-> op, arg |-> arg, ok |-> ok, returned |-> returned, pre |-> Here,
           at |-> DateNow]

\* configurations the service is constructed with
InitConfigs ==
  {SimulatorConfig(2, 2, 3, 1), SimulatorConfig(1, 1, 2, 1), SimulatorConfig(2, 3, 4, 1),
   SimulatorConfig(2, 1, 2, 1)}

\* configurations updateConfig is called with under Spec
ReConfigs ==
  {SimulatorConfig(1, 1, 2, 2), SimulatorConfig(1, 3, 2, 1)}

\* the configurations updateConfig is called with under SpecConfig
ConfigBox ==
  {SimulatorConfig(a, b, c, d) : a \in 1..MaxRegionCount, b \in 1..MaxReplicationFactor,
                                 c \in 1..MaxNodeCount, d \in 1..MaxRangeCount}

\* new SimulatorService(cfg), for the configurations the constructor accepts
InitFrom(cfg) ==
  \E o \in initializeCluster(cfg) :
    /\ o.ok
    /\ nodes = o.service.nodes
    /\ ranges = o.service.ranges
    /\ nextNodeId = o.service.nextNodeId
    /\ nextRangeId = o.service.nextRangeId
    /\ config = o.service.config
    /\ selectedRegions = o.service.selectedRegions
    /\ ops = 0
    /\ last = [op |-> "new", arg |-> cfg, ok |-> TRUE, returned |-> <<>>, pre |-> o.service,
               at |-> 0]

Init == \E cfg \in InitConfigs : InitFrom(cfg)

UpdateConfig(newConfig) ==
  \E o \in updateConfig(Here, newConfig) :
    /\ Becomes(o.service)
    /\ Called("updateConfig", newConfig, o.ok, <<>>)

AddRange ==
  /\ Len(ranges) < MaxRanges
  /\ \E o \in addRange(Here) :
       /\ Becomes(o.service)
       /\ Called("addRange", <<>>, o.ok,
                 IF o.ok THEN <<o.service.ranges[Len(o.service.ranges)]>> ELSE <<>>)

AddNode ==
  /\ Len(nodes) < MaxNodes
  /\ \E region \in Elems(availableRegions), zone \in Elems(Zones) :
       \E o \in addNode(Here, region, zone) :
         /\ Becomes(o.service)
         /\ Called("addNode", <<>>, TRUE, <<o.returned>>)

ToggleNodeId(nodeId) ==
  \E S \in toggleNodeStatus(Here, nodeId) :
    /\ Becomes(S)
    /\ Called("toggleNodeStatus", nodeId, TRUE, <<>>)

\* toggleNodeStatus with the id of a node, or with an id that no node has
ToggleNode == \E nodeId \in 1..(Len(nodes) + 1) : ToggleNodeId(nodeId)

ToggleRegion ==
  \E regionName \in Elems(availableRegions) : \E S \in toggleRegionStatus(Here, regionName) :
    /\ Becomes(S)
    /\ Called("toggleRegionStatus", regionName, TRUE, <<>>)

MarkRangeHot ==
  \E rangeId \in 1..(Len(ranges) + 1) :
    /\ Becomes(markRangeHot(Here, rangeId))
    /\ Called("markRangeHot", rangeId, TRUE, <<>>)

Counted == ops < MaxOps /\ ops' = ops + 1

Reconfigure == Counted /\ \E cfg \in ReConfigs : UpdateConfig(cfg)

AddRangeOp == Counted /\ AddRange

AddNodeOp == Counted /\ AddNode

ToggleNodeOp == Counted /\ ToggleNode

ToggleRegionOp == Counted /\ ToggleRegion

MarkRangeHotOp == Counted /\ MarkRangeHot

Next ==
  \/ Reconfigure
  \/ AddRangeOp
  \/ AddNodeOp
  \/ ToggleNodeOp
  \/ ToggleRegionOp
  \/ MarkRangeHotOp

\* every operation of the engine, MaxOps calls deep
Spec == Init /\ [][Next]_vars

\* one updateConfig call with any configuration of the box
ConfigureOnce == ops < 1 /\ ops' = ops + 1 /\ \E cfg \in ConfigBox : UpdateConfig(cfg)

NextConfig == ConfigureOnce

SpecConfig == Init /\ [][NextConfig]_vars

\* the smallest cluster: two nodes in one region, one range with one replica
InitMove == Init /\ config = SimulatorConfig(1, 1, 2, 1) /\ selectedRegions = <<"us-east">>

\* node toggles only
ToggleOnly ==
  /\ ops < MaxMoves
  /\ ops' = ops + 1
  /\ \E nodeId \in 1..Len(nodes) : ToggleNodeId(nodeId)

SpecMove == InitMove /\ [][ToggleOnly]_vars

\* clusters for the secondary pass of a recovery: many ranges on two nodes, and
\* five nodes in two regions that share two ranges with three replicas each
RecoverConfigs == {SimulatorConfig(1, 1, 2, ManyRanges), SimulatorConfig(2, 3, 5, 2)}

InitRecover == \E cfg \in RecoverConfigs : InitFrom(cfg)

\* node failures and recoveries only
FailOrRecover ==
  /\ ops < MaxRecoverOps
  /\ ops' = ops + 1
  /\ \E nodeId \in 1..Len(nodes) : ToggleNodeId(nodeId)

SpecRecover == InitRecover /\ [][FailOrRecover]_vars

\* a cluster for the repair pass of a recovery: three nodes in one region that
\* share ranges with two replicas each
InitRepair == InitFrom(SimulatorConfig(1, 2, 3, RepairRanges))

Repairing == ops < MaxRepairOps /\ ops' = ops + 1

\* a failure or a recovery of a node
RepairToggle == Repairing /\ \E nodeId \in 1..Len(nodes) : ToggleNodeId(nodeId)

\* a node joins
RepairJoin == Repairing /\ AddNode

NextRepair == RepairToggle \/ RepairJoin

SpecRepair == InitRepair /\ [][NextRepair]_vars

\* a node joins the two-node cluster of many ranges
InitJoin == InitFrom(SimulatorConfig(1, 1, 2, ManyRanges))

Join == ops < MaxJoinOps /\ ops' = ops + 1 /\ AddNode

SpecJoin == InitJoin /\ [][Join]_vars

\* clusters for the placement of a new range with fewer regions than replicas:
\* five nodes in two regions, and four nodes in the three zones of one region
PlaceConfigs == {SimulatorConfig(2, 3, 5, 1), SimulatorConfig(1, 3, 4, 1)}

InitPlace == \E cfg \in PlaceConfigs : InitFrom(cfg)

Placing == ops < MaxPlaceOps /\ ops' = ops + 1

\* a failure or a recovery of a node
PlaceToggle == Placing /\ \E nodeId \in 1..Len(nodes) : ToggleNodeId(nodeId)

\* a range is added
PlaceRange == Placing /\ AddRange

NextPlace == PlaceToggle \/ PlaceRange

SpecPlace == InitPlace /\ [][NextPlace]_vars

---------------------------------------------------------------------------
(* The claims *)

NoDuplicates(s) == \A i, j \in DOMAIN s : i # j => s[i] # s[j]

OnlineCount(ns) == Cardinality({i \in DOMAIN ns : ns[i].status = "online"})

NodeIds(ns) == {ns[i].id : i \in DOMAIN ns}

\* C1: after every operation, the leaseholder of every range is one of the
\* range's replicas.
C1_LeaseholderAmongReplicas ==
  \A i \in DOMAIN ranges : ranges[i].leaseholder \in Elems(ranges[i].replicas)

\* C2: after every operation, every range has exactly replicationFactor replicas
\* and each of them is the id of a node that getNodes() returns.
C2_ReplicationFactorReplicas ==
  \A i \in DOMAIN getRanges(Here) :
    /\ Len(getRanges(Here)[i].replicas) = config.replicationFactor
    /\ Elems(getRanges(Here)[i].replicas) \subseteq NodeIds(getNodes(Here))

\* a recovering node has just been put into the replicas of a range
C2_RecoveryChangedReplicas ==
  /\ last.op = "toggleNodeStatus"
  /\ IsOnlineId(nodes, last.arg)
  /\ \E i \in DOMAIN ranges : ranges[i].replicas # last.pre.ranges[i].replicas

\* C3: after every operation, no range lists the same node twice among its
\* replicas.
C3_NoDuplicateReplicas ==
  \A i \in DOMAIN ranges : NoDuplicates(ranges[i].replicas)

\* a node has just gone offline and a range has replaced it
C3_FailureReplacedReplica ==
  /\ last.op = "toggleNodeStatus"
  /\ HasNode(nodes, last.arg)
  /\ ~IsOnlineId(nodes, last.arg)
  /\ \E i \in DOMAIN ranges : /\ last.arg \in Elems(last.pre.ranges[i].replicas)
                              /\ last.arg \notin Elems(ranges[i].replicas)

\* the records of movements that the call at time `at` has appended
Fresh(movements, at) == SelectSeq(movements, LAMBDA m : m.timestamp = at)

\* new is what is left of old followed by the records of the call at time
\* `at`, cut from the front to the latest MovementHistory records
AppendedAndCut(old, new, at) ==
  LET all == old \o Fresh(new, at)
  IN /\ Len(new) = Min(MovementHistory, Len(all))
     /\ new = SubSeq(all, Len(all) - Len(new) + 1, Len(all))

\* C4: a range never holds more than 10 movement records; a toggle that
\* replaces a replica of a range appends its records to the range's list, and
\* a list that would pass 10 records loses its oldest ones while the others
\* keep their order, the new records last.
C4_MovementsCappedInOrder ==
  /\ \A i \in DOMAIN ranges : Len(ranges[i].recentMovements) <= MovementHistory
  /\ last.op = "toggleNodeStatus" =>
       \A i \in DOMAIN ranges :
         LET old == last.pre.ranges[i].recentMovements
             new == ranges[i].recentMovements
         IN /\ AppendedAndCut(old, new, last.at)
            /\ ranges[i].replicas # last.pre.ranges[i].replicas
                 => Fresh(new, last.at) # <<>>

\* a movement has just been recorded for a range that held 10 records
C4_RecordedOnFullHistory ==
  /\ last.op = "toggleNodeStatus"
  /\ \E i \in DOMAIN ranges :
       /\ Len(last.pre.ranges[i].recentMovements) = MovementHistory
       /\ Fresh(ranges[i].recentMovements, last.at) # <<>>
       /\ ranges[i].recentMovements[1] = last.pre.ranges[i].recentMovements[2]

\* C5: the ids of the nodes are pairwise distinct, and the node addNode creates
\* has an id greater than the id of every node that was in the cluster.
C5_NodeIdsUniqueIncreasing ==
  /\ NoDuplicates(MapSeq(getNodes(Here), LAMBDA n : n.id))
  /\ last.op = "addNode" =>
       /\ last.returned[1] \in Elems(nodes)
       /\ \A k \in DOMAIN last.pre.nodes : last.returned[1].id > last.pre.nodes[k].id

\* addNode has just added a node to a cluster that has had a node added before
C5_NodeAddedTwice ==
  /\ last.op = "addNode"
  /\ last.pre.nextNodeId > last.pre.config.nodeCount + 1

\* C6: addRange() called with fewer online nodes than replicationFactor throws
\* and leaves the service as it was: nodes, ranges and the next range id.
C6_AddRangeRejectedUnchanged ==
  (/\ last.op = "addRange"
   /\ OnlineCount(last.pre.nodes) < last.pre.config.replicationFactor)
  => (~last.ok /\ Here = last.pre)

\* addRange() has just thrown on a cluster that holds a range
C6_AddRangeRejected ==
  /\ last.op = "addRange"
  /\ ~last.ok
  /\ Len(ranges) > 0

\* C7: a failed configure leaves getNodes(), getRanges() and the configuration
\* as they were before the call.
C7_FailedConfigureUnchanged ==
  (last.op = "updateConfig" /\ ~last.ok)
  => /\ getNodes(Here) = getNodes(last.pre)
     /\ getRanges(Here) = getRanges(last.pre)
     /\ config = last.pre.config

\* C8: configure throws if replicationFactor > nodeCount and succeeds otherwise.
C8_ConfigureFailsIffTooFewNodes ==
  last.op = "updateConfig" =>
    (last.ok <=> last.arg.replicationFactor <= last.arg.nodeCount)

\* configure has just succeeded with replicationFactor = nodeCount
C8_ConfigureAtCapacity ==
  /\ last.op = "updateConfig"
  /\ last.ok
  /\ last.arg.replicationFactor = last.arg.nodeCount
  /\ last.arg.nodeCount > 1

\* C9: after a successful configure the nodes are n1..n<nodeCount>, all online,
\* and the ranges r1..r<rangeCount>, each with load 10, no movement, and
\* replicationFactor distinct replicas with the leaseholder among them.
C9_ConfigureRebuilds ==
  (last.op = "updateConfig" /\ last.ok) =>
    /\ Len(getNodes(Here)) = last.arg.nodeCount
    /\ \A i \in DOMAIN nodes : nodes[i].id = i /\ nodes[i].status = "online"
    /\ Len(getRanges(Here)) = last.arg.rangeCount
    /\ \A i \in DOMAIN ranges :
         /\ ranges[i].id = i
         /\ ranges[i].load = BaseLoad
         /\ ranges[i].recentMovements = <<>>
         /\ Len(ranges[i].replicas) = last.arg.replicationFactor
         /\ NoDuplicates(ranges[i].replicas)
         /\ Elems(ranges[i].replicas) \subseteq NodeIds(nodes)
         /\ ranges[i].leaseholder \in Elems(ranges[i].replicas)

\* configure has just rebuilt a cluster that was larger than the new one
C9_ConfiguredSmaller ==
  /\ last.op = "updateConfig"
  /\ last.ok
  /\ last.arg.rangeCount > 1
  /\ Len(last.pre.nodes) > last.arg.nodeCount

\* C10: after a successful configure with nodeCount >= regionCount the nodes
\* are in exactly regionCount distinct regions.
C10_EveryRegionPopulated ==
  (/\ last.op = "updateConfig"
   /\ last.ok
   /\ last.arg.nodeCount >= last.arg.regionCount)
  => Cardinality({nodes[i].region : i \in DOMAIN nodes}) = last.arg.regionCount

\* toggleNodeStatus has just taken a node of the cluster offline
TookOffline ==
  /\ last.op = "toggleNodeStatus"
  /\ HasNode(last.pre.nodes, last.arg)
  /\ IsOnlineId(last.pre.nodes, last.arg)

\* toggleNodeStatus has just brought a node of the cluster back online
BroughtOnline ==
  /\ last.op = "toggleNodeStatus"
  /\ HasNode(last.pre.nodes, last.arg)
  /\ ~IsOnlineId(last.pre.nodes, last.arg)

\* the range has a replica other than nodeId that is online
HasOtherOnlineReplica(ns, range, nodeId) ==
  \E id \in Elems(range.replicas) : id # nodeId /\ IsOnlineId(ns, id)

\* C11: when toggleNodeStatus takes the leaseholder of a range offline, the new
\* leaseholder is another node, online and a replica of the range before the
\* toggle, if the range has another replica that is online; else the
\* leaseholder stays the node that went offline.
C11_LeaseholderLeavesFailedNode ==
  TookOffline =>
    \A i \in DOMAIN ranges :
      last.pre.ranges[i].leaseholder = last.arg =>
        IF HasOtherOnlineReplica(nodes, last.pre.ranges[i], last.arg)
        THEN /\ ranges[i].leaseholder # last.arg
             /\ IsOnlineId(nodes, ranges[i].leaseholder)
             /\ ranges[i].leaseholder \in Elems(last.pre.ranges[i].replicas)
        ELSE ranges[i].leaseholder = last.arg

\* C12: when toggleNodeStatus takes a node offline, every range that had it
\* as a replica gets, in the slot of that node, a node that is online and was
\* not a replica of the range, the other slots unchanged, if an online node
\* outside the replicas of the range exists; else its replicas are unchanged.
C12_FailedReplicaReplaced ==
  TookOffline =>
    \A i \in DOMAIN ranges :
      LET old == last.pre.ranges[i].replicas
          new == ranges[i].replicas
      IN last.arg \in Elems(old) =>
           IF \E k \in DOMAIN nodes : nodes[k].status = "online" /\ nodes[k].id \notin Elems(old)
           THEN /\ Len(new) = Len(old)
                /\ \A k \in DOMAIN old :
                     IF old[k] = last.arg
                     THEN IsOnlineId(nodes, new[k]) /\ new[k] \notin Elems(old)
                     ELSE new[k] = old[k]
           ELSE new = old

\* a node went offline and its replica in the first slot of a range with more
\* replicas was replaced
C12_ReplacedInPlace ==
  /\ TookOffline
  /\ \E i \in DOMAIN ranges :
       LET old == last.pre.ranges[i].replicas
       IN /\ Len(old) > 1
          /\ old[1] = last.arg
          /\ ranges[i].replicas[1] # last.arg

\* C13: when toggleNodeStatus brings a node back online, every range that had
\* fewer than replicationFactor online replicas before the toggle has the node
\* among its replicas afterwards; where the node was not a replica it replaces
\* exactly one offline replica and every replica that was online is kept.
C13_RecoveredNodeRepairs ==
  BroughtOnline =>
    \A i \in DOMAIN ranges :
      LET old == last.pre.ranges[i].replicas
          new == ranges[i].replicas
          wasOnline == {id \in Elems(old) : IsOnlineId(last.pre.nodes, id)}
      IN Len(OnlineReplicas(last.pre.nodes, last.pre.ranges[i])) < config.replicationFactor =>
           /\ last.arg \in Elems(new)
           /\ wasOnline \subseteq Elems(new)
           /\ last.arg \notin Elems(old) =>
                /\ Cardinality(Elems(old) \ Elems(new)) = 1
                /\ Elems(new) \ Elems(old) = {last.arg}
                /\ \A id \in Elems(old) \ Elems(new) : ~IsOnlineId(last.pre.nodes, id)

\* a node came back online and took the place of an offline replica in a range
\* that keeps another offline replica
C13_RepairedKeepingOffline ==
  /\ BroughtOnline
  /\ \E i \in DOMAIN ranges :
       /\ last.arg \notin Elems(last.pre.ranges[i].replicas)
       /\ last.arg \in Elems(ranges[i].replicas)
       /\ \E id \in Elems(ranges[i].replicas) : ~IsOnlineId(nodes, id)

\* the nodes of a region, as toggleRegionStatus collects them
RegionNodes(ns, regionName) == SelectSeq(ns, LAMBDA n : n.region = regionName)

\* C14: toggleRegionStatus(r) gives every node of r one status, online if a
\* node of r was offline before the call and offline if all were online, and
\* leaves every node outside r as it was.
C14_RegionToggledAsOne ==
  last.op = "toggleRegionStatus" =>
    LET status == IF \E k \in DOMAIN last.pre.nodes :
                       /\ last.pre.nodes[k].region = last.arg
                       /\ last.pre.nodes[k].status = "offline"
                  THEN "online" ELSE "offline"
    IN /\ Len(nodes) = Len(last.pre.nodes)
       /\ \A k \in DOMAIN nodes :
            IF last.pre.nodes[k].region = last.arg
            THEN nodes[k] = [last.pre.nodes[k] EXCEPT !.status = status]
            ELSE nodes[k] = last.pre.nodes[k]

\* toggleRegionStatus has just been called on a region that had a node online
\* and a node offline, in a cluster with a node in another region
C14_MixedRegionToggled ==
  /\ last.op = "toggleRegionStatus"
  /\ \E j, k \in DOMAIN last.pre.nodes :
       /\ last.pre.nodes[j].region = last.arg
       /\ last.pre.nodes[k].region = last.arg
       /\ last.pre.nodes[j].status = "online"
       /\ last.pre.nodes[k].status = "offline"
  /\ \E k \in DOMAIN nodes : nodes[k].region # last.arg

\* C15: after toggleRegionStatus(r) on a region whose nodes are all online,
\* all nodes of r are offline, and every range whose leaseholder was in r and
\* that has an online replica outside r has a leaseholder that is online and
\* outside r.
C15_RegionFailureMovesLeaseholders ==
  (/\ last.op = "toggleRegionStatus"
   /\ ~isRegionOffline(RegionNodes(last.pre.nodes, last.arg)))
  => /\ \A k \in DOMAIN nodes : nodes[k].region = last.arg => nodes[k].status = "offline"
     /\ \A i \in DOMAIN ranges :
          LET old == last.pre.ranges[i]
          IN (/\ HasNode(last.pre.nodes, old.leaseholder)
              /\ FindNode(last.pre.nodes, old.leaseholder).region = last.arg
              /\ \E id \in Elems(old.replicas) :
                   /\ IsOnlineId(last.pre.nodes, id)
                   /\ FindNode(last.pre.nodes, id).region # last.arg)
             => /\ IsOnlineId(nodes, ranges[i].leaseholder)
                /\ FindNode(nodes, ranges[i].leaseholder).region # last.arg

\* markRangeHot has just been called with the id of a range
MarkedHot ==
  /\ last.op = "markRangeHot"
  /\ \E i \in DOMAIN last.pre.ranges : last.pre.ranges[i].id = last.arg

\* C16: markRangeHot(id) on a range that exists sets the load of that range to
\* 80 and leaves the load, replicas and leaseholder of every other range, the
\* replicas of the marked range, and every node as they were.
C16_MarkRangeHotFrame ==
  MarkedHot =>
    /\ nodes = last.pre.nodes
    /\ Len(ranges) = Len(last.pre.ranges)
    /\ \A i \in DOMAIN ranges :
         IF last.pre.ranges[i].id = last.arg
         THEN /\ ranges[i].load = HotLoad
              /\ ranges[i].replicas = last.pre.ranges[i].replicas
         ELSE /\ ranges[i].load = last.pre.ranges[i].load
              /\ ranges[i].replicas = last.pre.ranges[i].replicas
              /\ ranges[i].leaseholder = last.pre.ranges[i].leaseholder

\* markRangeHot has just moved the leaseholder of one of two ranges, the other
\* having its base load
C16_MarkedOneOfTwo ==
  /\ MarkedHot
  /\ \E i, j \in DOMAIN ranges :
       /\ last.pre.ranges[i].id = last.arg
       /\ ranges[i].leaseholder # last.pre.ranges[i].leaseholder
       /\ j # i
       /\ ranges[j].load = BaseLoad

\* C17: after markRangeHot(id) the leaseholder of the range is unchanged, or
\* it is another node, online and a replica of the range, in a region whose
\* load (the loads of the ranges led from it, once the load of the range is
\* 80 and before the move) is lower than that of the region of the previous
\* leaseholder.
C17_HotLeaseholderToLowerLoad ==
  MarkedHot =>
    \A i \in DOMAIN ranges :
      last.pre.ranges[i].id = last.arg =>
        LET old == last.pre.ranges[i].leaseholder
            new == ranges[i].leaseholder
            hot == [last.pre.ranges EXCEPT ![i].load = HotLoad]
        IN \/ new = old
           \/ /\ IsOnlineId(nodes, new)
              /\ new \in Elems(ranges[i].replicas)
              /\ HasNode(nodes, old)
              /\ calculateRegionLoad(nodes, hot, FindNode(nodes, new).region)
                   < calculateRegionLoad(nodes, hot, FindNode(nodes, old).region)

\* C18: toggleNodeStatus with an id that no node has and markRangeHot with an
\* id that no range has return without an error and leave all nodes and all
\* ranges as they were.
C18_UnknownIdsIgnored ==
  /\ (last.op = "toggleNodeStatus" /\ ~HasNode(last.pre.nodes, last.arg))
       => (last.ok /\ nodes = last.pre.nodes /\ ranges = last.pre.ranges)
  /\ (last.op = "markRangeHot" /\ ~MarkedHot)
       => (last.ok /\ nodes = last.pre.nodes /\ ranges = last.pre.ranges)

\* markRangeHot has just been called with an id that no range has, on a
\* cluster whose ranges have their base load
C18_UnknownRangeMarked ==
  /\ last.op = "markRangeHot"
  /\ ~MarkedHot
  /\ \E i \in DOMAIN ranges : ranges[i].load = BaseLoad

\* the regions of the nodes that are online
OnlineRegions(ns) == {ns[k].region : k \in {j \in DOMAIN ns : ns[j].status = "online"}}

\* C19: when addRange() succeeds and the online nodes are in at least
\* replicationFactor regions, the replicas of the new range are online nodes
\* in replicationFactor pairwise different regions.
C19_ReplicasInDifferentRegions ==
  (/\ last.op = "addRange"
   /\ last.ok
   /\ Cardinality(OnlineRegions(last.pre.nodes)) >= last.pre.config.replicationFactor)
  => LET replicas == last.returned[1].replicas
     IN /\ Len(replicas) = last.pre.config.replicationFactor
        /\ \A k \in DOMAIN replicas : IsOnlineId(last.pre.nodes, replicas[k])
        /\ \A j, k \in DOMAIN replicas :
             j # k => FindNode(last.pre.nodes, replicas[j]).region
                        # FindNode(last.pre.nodes, replicas[k]).region

\* addRange() has just placed two or more replicas in a cluster whose online
\* nodes are in enough regions, one of which has two online nodes
C19_PlacedAcrossRegions ==
  /\ last.op = "addRange"
  /\ last.ok
  /\ last.pre.config.replicationFactor > 1
  /\ Cardinality(OnlineRegions(last.pre.nodes)) >= last.pre.config.replicationFactor
  /\ OnlineCount(last.pre.nodes) > Cardinality(OnlineRegions(last.pre.nodes))

\* C20: an addRange() that succeeds appends one range, with the id that
\* follows the ranges created since the last configure, load 10, no recorded
\* movement and replicas that are all online; it changes no other range and
\* no node.
C20_AddRangeAppendsOne ==
  (last.op = "addRange" /\ last.ok) =>
    LET newRange == last.returned[1]
    IN /\ ranges = Append(last.pre.ranges, newRange)
       /\ newRange.id = Len(last.pre.ranges) + 1
       /\ newRange.load = BaseLoad
       /\ newRange.recentMovements = <<>>
       /\ \A k \in DOMAIN newRange.replicas : IsOnlineId(nodes, newRange.replicas[k])
       /\ nodes = last.pre.nodes

\* addRange() has just succeeded on a cluster that has a range and an offline
\* node
C20_AddedBesideOfflineNode ==
  /\ last.op = "addRange"
  /\ last.ok
  /\ Len(last.pre.ranges) > 0
  /\ \E k \in DOMAIN nodes : nodes[k].status = "offline"

\* the records of the latest call in the history of a range
FreshOf(range) == Fresh(range.recentMovements, last.at)

\* C21: whenever an operation changes the replicas or the leaseholder of a
\* range from one node to another, a movement record of that change, with
\* the old node, the new node and isLeaseholder set for a leaseholder change,
\* is appended to the recentMovements of the range.
C21_EveryMoveRecorded ==
  last.op \in {"addRange", "addNode", "toggleNodeStatus", "toggleRegionStatus", "markRangeHot"} =>
    \A i \in DOMAIN last.pre.ranges :
      LET old == last.pre.ranges[i]
          new == ranges[i]
          fresh == FreshOf(new)
      IN /\ \A a \in Elems(old.replicas) \ Elems(new.replicas) :
              \E k \in DOMAIN fresh : fresh[k].fromNodeId = a /\ ~fresh[k].isLeaseholder
         /\ \A b \in Elems(new.replicas) \ Elems(old.replicas) :
              \E k \in DOMAIN fresh : fresh[k].toNodeId = b /\ ~fresh[k].isLeaseholder
         /\ old.leaseholder # new.leaseholder =>
              /\ \E k \in DOMAIN fresh :
                   fresh[k].fromNodeId = old.leaseholder /\ fresh[k].isLeaseholder
              /\ \E k \in DOMAIN fresh :
                   fresh[k].toNodeId = new.leaseholder /\ fresh[k].isLeaseholder

\* the node as it is known apart from its status
Identity(n) == <<n.id, n.region, n.zone>>

\* C22: addNode() adds one node, online, and returns it; no other operation
\* but a configure adds or removes a node, and none changes the id, region
\* or zone of a node: only the status of a node changes.
C22_NodesOnlyChangeStatus ==
  last.op \in {"addRange", "addNode", "toggleNodeStatus", "toggleRegionStatus", "markRangeHot"} =>
    /\ \A k \in DOMAIN last.pre.nodes :
         /\ k \in DOMAIN nodes
         /\ Identity(nodes[k]) = Identity(last.pre.nodes[k])
    /\ IF last.op = "addNode"
       THEN /\ nodes = Append(last.pre.nodes, last.returned[1])
            /\ last.returned[1].status = "online"
       ELSE Len(nodes) = Len(last.pre.nodes)

\* addNode() has just added a node to a cluster in which toggles have moved
\* replicas
C22_AddedAfterToggles ==
  /\ last.op = "addNode"
  /\ \E i \in DOMAIN ranges : ranges[i].recentMovements # <<>>

\* C23: after every operation the leaseholder of a range is an offline node
\* only if none of the replicas of the range is online.
C23_OfflineLeaseholderOnlyWithoutOnlineReplica ==
  \A i \in DOMAIN ranges :
    (HasNode(nodes, ranges[i].leaseholder) /\ ~IsOnlineId(nodes, ranges[i].leaseholder))
    => \A id \in Elems(ranges[i].replicas) : ~IsOnlineId(nodes, id)

\* C24: when the leaseholder of a range goes offline and another replica of
\* the range is online in a region other than that of the failed node, the new
\* leaseholder is in a region other than that of the failed node.
C24_LeaseholderPrefersOtherRegion ==
  /\ TookOffline =>
       \A i \in DOMAIN ranges :
         LET old == last.pre.ranges[i]
             failed == FindNode(nodes, last.arg)
         IN (/\ old.leaseholder = last.arg
             /\ \E id \in Elems(old.replicas) :
                  /\ id # last.arg
                  /\ IsOnlineId(nodes, id)
                  /\ FindNode(nodes, id).region # failed.region)
            => /\ HasNode(nodes, ranges[i].leaseholder)
               /\ FindNode(nodes, ranges[i].leaseholder).region # failed.region
  /\ (/\ last.op = "toggleRegionStatus"
      /\ ~isRegionOffline(RegionNodes(last.pre.nodes, last.arg)))
     => \A i \in DOMAIN ranges :
          LET old == last.pre.ranges[i]
          IN (/\ HasNode(nodes, old.leaseholder)
              /\ FindNode(nodes, old.leaseholder).region = last.arg
              /\ \E id \in Elems(old.replicas) : IsOnlineId(nodes, id))
             => /\ HasNode(nodes, ranges[i].leaseholder)
                /\ FindNode(nodes, ranges[i].leaseholder).region # last.arg

\* the number of replicas the ranges rs have on the node
ReplicasOn(rs, id) ==
  Cardinality(UNION {{<<i, k>> : k \in {m \in DOMAIN rs[i].replicas : rs[i].replicas[m] = id}} :
                       i \in DOMAIN rs})

\* the ranges at the moment toggleNodeStatus processes range i: the ranges
\* before it as they are now, the others as they were
WhenProcessed(i) ==
  [j \in DOMAIN ranges |-> IF j < i THEN ranges[j] ELSE last.pre.ranges[j]]

\* the nodes a replacement for the replica of range `old` on nodeId is taken
\* from: the first tier that has a node
ReplacementTier(ns, old, nodeId) ==
  LET others == {FindNode(ns, id) : id \in {x \in Elems(old.replicas) : x # nodeId /\ HasNode(ns, x)}}
      available == {n \in Elems(ns) : n.status = "online" /\ n.id \notin Elems(old.replicas)}
      newRegion == {n \in available : \A o \in others : o.region # n.region}
      newZone == {n \in available : \A o \in others : ZoneKey(o) # ZoneKey(n)}
  IN IF newRegion # {} THEN newRegion
     ELSE IF newZone # {} THEN newZone
     ELSE available

\* the node that has taken the place of nodeId in the replicas: <<>> if none
Replacement(old, new, nodeId) ==
  SelectSeq(new.replicas, LAMBDA id : id \notin Elems(old.replicas))

\* C25: the replacement of a failed replica is a node of the first tier that
\* has one among: the online non-member nodes in a region with none of the
\* other replicas of the range, those in a zone with none of them, all online
\* non-member nodes; and no node of that tier has fewer replicas, counted over
\* all ranges when the range is processed.
C25_ReplacementByTierAndLoad ==
  TookOffline =>
    \A i \in DOMAIN ranges :
      LET old == last.pre.ranges[i]
          tier == ReplacementTier(nodes, old, last.arg)
          replacement == Replacement(old, ranges[i], last.arg)
      IN (last.arg \in Elems(old.replicas) /\ replacement # <<>>) =>
           /\ Len(replacement) = 1
           /\ \E n \in tier : n.id = replacement[1]
           /\ \A n \in tier :
                ReplicasOn(WhenProcessed(i), replacement[1]) <= ReplicasOn(WhenProcessed(i), n.id)

\* a failed replica has just been replaced by a node of its tier that is not
\* the first of the tier in the list of nodes, which has more replicas
C25_ReplacedByLessLoaded ==
  /\ TookOffline
  /\ \E i \in DOMAIN ranges :
       LET old == last.pre.ranges[i]
           tier == ReplacementTier(nodes, old, last.arg)
           replacement == Replacement(old, ranges[i], last.arg)
       IN /\ last.arg \in Elems(old.replicas)
          /\ replacement # <<>>
          /\ \E n \in tier : /\ n.id < replacement[1]
                              /\ ReplicasOn(WhenProcessed(i), n.id)
                                   > ReplicasOn(WhenProcessed(i), replacement[1])

\* C26: toggleNodeStatus(n) that takes n offline changes the status of n and
\* of no other node, and leaves every range that does not have n among its
\* replicas as it was: replicas, leaseholder, load and recentMovements.
C26_FailureLeavesOtherRanges ==
  TookOffline =>
    /\ Len(nodes) = Len(last.pre.nodes)
    /\ \A k \in DOMAIN nodes :
         IF last.pre.nodes[k].id = last.arg
         THEN nodes[k] = [last.pre.nodes[k] EXCEPT !.status = "offline"]
         ELSE nodes[k] = last.pre.nodes[k]
    /\ Len(ranges) = Len(last.pre.ranges)
    /\ \A i \in DOMAIN ranges :
         last.arg \notin Elems(last.pre.ranges[i].replicas) => ranges[i] = last.pre.ranges[i]

\* a node has just gone offline: a range that had a replica on it has changed
\* and there is a range that had none
C26_FailedBesideOtherRange ==
  /\ TookOffline
  /\ \E i, j \in DOMAIN ranges :
       /\ last.arg \in Elems(last.pre.ranges[i].replicas)
       /\ ranges[i] # last.pre.ranges[i]
       /\ last.arg \notin Elems(last.pre.ranges[j].replicas)
       /\ \E k \in DOMAIN nodes : /\ nodes[k].status = "online"
                                   /\ nodes[k].id \notin Elems(ranges[j].replicas)

\* toggleNodeStatus has just brought a node back online and the repair of
\* range i, which lacked online replicas, has added the node to it
RepairAdded(i) ==
  /\ BroughtOnline
  /\ Len(OnlineReplicas(last.pre.nodes, last.pre.ranges[i])) < config.replicationFactor
  /\ last.arg \notin Elems(last.pre.ranges[i].replicas)
  /\ last.arg \in Elems(ranges[i].replicas)

\* C27: when the recovery of node n adds n to an under-replicated range, the
\* range keeps its leaseholder if that is one of its online replicas, else n
\* becomes the leaseholder; either way the leaseholder is then online and one
\* of the replicas of the range.
C27_RepairKeepsOnlineLeaseholder ==
  \A i \in DOMAIN ranges :
    RepairAdded(i) =>
      LET old == last.pre.ranges[i]
      IN /\ IF old.leaseholder \in Elems(OnlineReplicas(last.pre.nodes, old))
            THEN ranges[i].leaseholder = old.leaseholder
            ELSE ranges[i].leaseholder = last.arg
         /\ IsOnlineId(nodes, ranges[i].leaseholder)
         /\ ranges[i].leaseholder \in Elems(ranges[i].replicas)

\* a recovery has just added the node to a range whose leaseholder was an
\* offline replica, and the range keeps an offline replica
C27_RepairPromotedNode ==
  \E i \in DOMAIN ranges :
    /\ RepairAdded(i)
    /\ last.pre.ranges[i].leaseholder \in Elems(last.pre.ranges[i].replicas)
    /\ ~IsOnlineId(last.pre.nodes, last.pre.ranges[i].leaseholder)
    /\ \E id \in Elems(ranges[i].replicas) : ~IsOnlineId(nodes, id)

\* toggleNodeStatus has just brought a node back online while some range had
\* fewer than replicationFactor replicas on online nodes
RecoveredUnderReplicated ==
  /\ BroughtOnline
  /\ \E i \in DOMAIN last.pre.ranges :
       Len(OnlineReplicas(nodes, last.pre.ranges[i])) < config.replicationFactor

\* C28: if some range has fewer than replicationFactor online replicas when a
\* node recovers, the opportunistic pass does not run: the recovery removes no
\* online replica from any range.
C28_RepairRemovesNoOnlineReplica ==
  RecoveredUnderReplicated =>
    \A i \in DOMAIN ranges :
      \A id \in Elems(last.pre.ranges[i].replicas) :
        IsOnlineId(nodes, id) => id \in Elems(ranges[i].replicas)

\* a recovery has just repaired one range while another range, not
\* under-replicated, holds a replica on a node with at least two replicas more
\* than the recovered node, which is not a member of it
C28_RepairedBesideOverloaded ==
  /\ RecoveredUnderReplicated
  /\ \E i, j \in DOMAIN ranges :
       /\ ranges[i] # last.pre.ranges[i]
       /\ Len(OnlineReplicas(nodes, last.pre.ranges[j])) = config.replicationFactor
       /\ last.arg \notin Elems(ranges[j].replicas)
       /\ \E id \in Elems(ranges[j].replicas) :
            /\ IsOnlineId(nodes, id)
            /\ ReplicasOn(ranges, id) > ReplicasOn(ranges, last.arg) + 1

\* toggleNodeStatus has just brought a node back online while every range had
\* replicationFactor replicas on online nodes
RecoveredFullyReplicated ==
  /\ BroughtOnline
  /\ \A i \in DOMAIN last.pre.ranges :
       Len(OnlineReplicas(nodes, last.pre.ranges[i])) >= config.replicationFactor

\* at the start of the recovery the node is online and has at least two
\* replicas more than the recovering node
WasOverloaded(id) ==
  /\ id # last.arg
  /\ IsOnlineId(nodes, id)
  /\ ReplicasOn(last.pre.ranges, id) > ReplicasOn(last.pre.ranges, last.arg) + 1

\* the positions of range i whose replica the last call has replaced
Moved(i) ==
  {k \in DOMAIN last.pre.ranges[i].replicas :
     k \notin DOMAIN ranges[i].replicas \/ ranges[i].replicas[k] # last.pre.ranges[i].replicas[k]}

\* C29: a recovery during which no range is under-replicated changes at most 3
\* ranges; in each changed range exactly one replica is replaced, the added
\* replica is the recovering node, and the removed replica was on an online
\* node that had over 1 replica more than the recovering node at the start.
C29_SecondaryPassBounded ==
  RecoveredFullyReplicated =>
    LET changed == {i \in DOMAIN ranges : ranges[i] # last.pre.ranges[i]}
    IN /\ Len(ranges) = Len(last.pre.ranges)
       /\ Cardinality(changed) <= 3
       /\ \A i \in changed :
            /\ Len(ranges[i].replicas) = Len(last.pre.ranges[i].replicas)
            /\ Cardinality(Moved(i)) = 1
            /\ \A k \in Moved(i) : /\ ranges[i].replicas[k] = last.arg
                                    /\ WasOverloaded(last.pre.ranges[i].replicas[k])

\* a recovery has just moved replicas of three ranges while more than twelve
\* ranges had a replica to give
C29_ThreeOfManyMoved ==
  /\ RecoveredFullyReplicated
  /\ Cardinality({i \in DOMAIN ranges : ranges[i] # last.pre.ranges[i]}) = 3
  /\ Cardinality({i \in DOMAIN ranges :
                    /\ last.arg \notin Elems(last.pre.ranges[i].replicas)
                    /\ \E id \in Elems(last.pre.ranges[i].replicas) : WasOverloaded(id)}) > 12

\* C30: in the opportunistic pass the replica moved off a range is the
\* leaseholder of the range only when the range has no other replica on an
\* overloaded node.
C30_LeaseholderMovedOnlyWhenNecessary ==
  RecoveredFullyReplicated =>
    \A i \in DOMAIN ranges : \A k \in Moved(i) :
      last.pre.ranges[i].replicas[k] = last.pre.ranges[i].leaseholder =>
        ~\E id \in Elems(last.pre.ranges[i].replicas) :
            /\ id # last.pre.ranges[i].leaseholder
            /\ WasOverloaded(id)

\* addRange() has just succeeded on a cluster whose online nodes were in at
\* least replicationFactor regions
AddedAcrossRegions ==
  /\ last.op = "addRange"
  /\ last.ok
  /\ Cardinality(OnlineRegions(last.pre.nodes)) >= last.pre.config.replicationFactor

\* C31: when addRange() succeeds and the online nodes span at least
\* replicationFactor regions, each chosen replica has the minimum replica
\* count, over the existing ranges, among the online nodes of its region.
C31_ReplicaLeastLoadedOfRegion ==
  AddedAcrossRegions =>
    \A id \in Elems(last.returned[1].replicas) :
      \A k \in DOMAIN last.pre.nodes :
        (/\ last.pre.nodes[k].status = "online"
         /\ last.pre.nodes[k].region = FindNode(last.pre.nodes, id).region)
        => ReplicasOn(last.pre.ranges, id) <= ReplicasOn(last.pre.ranges, last.pre.nodes[k].id)

\* addRange() has just chosen a replica in a region where another online node,
\* listed before it, had more replicas
C31_ChoseLessLoadedOfRegion ==
  /\ AddedAcrossRegions
  /\ \E id \in Elems(last.returned[1].replicas) : \E k \in DOMAIN last.pre.nodes :
       /\ last.pre.nodes[k].status = "online"
       /\ last.pre.nodes[k].region = FindNode(last.pre.nodes, id).region
       /\ last.pre.nodes[k].id < id
       /\ ReplicasOn(last.pre.ranges, last.pre.nodes[k].id) > ReplicasOn(last.pre.ranges, id)

\* addRange() has just succeeded on a cluster whose online nodes were in fewer
\* than replicationFactor regions
AddedWithFewRegions ==
  /\ last.op = "addRange"
  /\ last.ok
  /\ Cardinality(OnlineRegions(last.pre.nodes)) < last.pre.config.replicationFactor

\* C32: when addRange() succeeds and the online nodes span fewer than
\* replicationFactor regions, every region that has an online node hosts at
\* least one replica of the new range.
C32_EveryOnlineRegionHosts ==
  AddedWithFewRegions =>
    \A region \in OnlineRegions(last.pre.nodes) :
      \E id \in Elems(last.returned[1].replicas) :
        FindNode(last.pre.nodes, id).region = region

\* addRange() has just succeeded with too few regions although one region
\* alone had replicationFactor online nodes and another had an online node
C32_RegionCouldBeLeftOut ==
  /\ AddedWithFewRegions
  /\ Cardinality(OnlineRegions(last.pre.nodes)) > 1
  /\ \E region \in OnlineRegions(last.pre.nodes) :
       Cardinality({k \in DOMAIN last.pre.nodes :
                      /\ last.pre.nodes[k].status = "online"
                      /\ last.pre.nodes[k].region = region})
         >= last.pre.config.replicationFactor

\* the region/zone pairs of the nodes that are online
OnlineZoneKeys(ns) == {ZoneKey(ns[k]) : k \in {j \in DOMAIN ns : ns[j].status = "online"}}

\* C33: when addRange() succeeds, the online nodes span fewer than
\* replicationFactor regions and occupy at least replicationFactor region/zone
\* pairs, no two replicas of the new range are in the same region/zone pair.
C33_ReplicasInDifferentZones ==
  (/\ AddedWithFewRegions
   /\ Cardinality(OnlineZoneKeys(last.pre.nodes)) >= last.pre.config.replicationFactor)
  => LET replicas == last.returned[1].replicas
     IN \A j, k \in DOMAIN replicas :
          j # k => ZoneKey(FindNode(last.pre.nodes, replicas[j]))
                     # ZoneKey(FindNode(last.pre.nodes, replicas[k]))

\* addRange() has just succeeded with too few regions and enough region/zone
\* pairs while two online nodes shared a pair
C33_TwoNodesSharedZone ==
  /\ AddedWithFewRegions
  /\ Cardinality(OnlineZoneKeys(last.pre.nodes)) >= last.pre.config.replicationFactor
  /\ last.pre.config.replicationFactor > 1
  /\ OnlineCount(last.pre.nodes) > Cardinality(OnlineZoneKeys(last.pre.nodes))

\* the number of nodes of the cluster, online or offline, in the region of node id
NodesInRegionOf(id) ==
  Cardinality({k \in DOMAIN nodes : nodes[k].region = FindNode(nodes, id).region})

\* the leaseholder of the range is a replica, and no replica is in a region
\* with more nodes than the region of the leaseholder
LeaseholderInLargestRegion(range) ==
  /\ range.leaseholder \in Elems(range.replicas)
  /\ \A id \in Elems(range.replicas) : NodesInRegionOf(range.leaseholder) >= NodesInRegionOf(id)

\* C34: the leaseholder of a newly created range is a replica whose region
\* contains the largest number of cluster nodes, online and offline counted
\* alike, among the regions of the replicas of the range.
C34_LeaseholderInMostPopulatedRegion ==
  /\ (last.op = "addRange" /\ last.ok) => LeaseholderInLargestRegion(last.returned[1])
  /\ (last.op \in {"new", "updateConfig"} /\ last.ok) =>
       \A i \in DOMAIN ranges : LeaseholderInLargestRegion(ranges[i])

\* addRange() has just given the lease to a node whose region has more nodes,
\* but not more online nodes, than the region of another replica
C34_OfflineNodesDecided ==
  /\ last.op = "addRange"
  /\ last.ok
  /\ \E id \in Elems(last.returned[1].replicas) :
       LET lh == FindNode(nodes, last.returned[1].leaseholder)
           other == FindNode(nodes, id)
       IN /\ NodesInRegionOf(lh.id) > NodesInRegionOf(id)
          /\ OnlinePopularity(nodes, lh.region) <= OnlinePopularity(nodes, other.region)

\* the nodes of the region, in the order of this.nodes
NodesOfRegion(region) == SelectSeq(nodes, LAMBDA n : n.region = region)

\* C35: after a successful configure, the k-th node of each region, counting
\* from 0 in creation order, is in zone k mod 3, so the node counts of any two
\* zones of one region differ by at most one.
C35_ZonesRoundRobin ==
  (last.op \in {"new", "updateConfig"} /\ last.ok) =>
    \A region \in Elems(availableRegions) :
      LET created == NodesOfRegion(region)
          inZone(z) == Cardinality({k \in DOMAIN created : created[k].zone = z})
      IN /\ \A k \in DOMAIN created :
              /\ created[k].zone = Zones[((k - 1) % 3) + 1]
              /\ \A j \in DOMAIN created : j < k => created[j].id < created[k].id
         /\ \A y, z \in Elems(Zones) : inZone(y) - inZone(z) <= 1

\* a configure has just put more than three nodes in one region
C35_ZonesWrappedAround ==
  /\ last.op = "updateConfig"
  /\ last.ok
  /\ \E region \in Elems(availableRegions) : Len(NodesOfRegion(region)) > 3

RECURSIVE ToggledInTurn(_, _)
ToggledInTurn(services, regionNodes) ==
  IF regionNodes = <<>> THEN services
  ELSE ToggledInTurn(UNION {toggleNodeStatus(S, Head(regionNodes).id) : S \in services},
                     Tail(regionNodes))

\* the nodes, and the replicas and leaseholder of every range
Placement(ns, rs) ==
  <<ns, [i \in DOMAIN rs |-> <<rs[i].replicas, rs[i].leaseholder>>]>>

\* toggleRegionStatus has just been called on a region whose nodes were all online
RegionTakenOffline ==
  /\ last.op = "toggleRegionStatus"
  /\ RegionNodes(last.pre.nodes, last.arg) # <<>>
  /\ \A k \in DOMAIN last.pre.nodes :
       last.pre.nodes[k].region = last.arg => last.pre.nodes[k].status = "online"

\* C37: toggleRegion(r) on a region whose nodes are all online produces the
\* same nodes and ranges (statuses, replicas, leaseholders) as toggleNode on
\* each node of r, one after another in node order.
C37_RegionToggleIsNodeToggles ==
  RegionTakenOffline =>
    \A S \in ToggledInTurn({last.pre}, RegionNodes(last.pre.nodes, last.arg)) :
      Placement(S.nodes, S.ranges) = Placement(nodes, ranges)

\* the load and the leaseholder of every range
LoadsAndLeases(rs) == [i \in DOMAIN rs |-> <<rs[i].load, rs[i].leaseholder>>]

\* C38: markRangeHot is idempotent: calling markRangeHot(id) a second time
\* leaves the loads and leaseholders that the first call left.
C38_MarkRangeHotIdempotent ==
  last.op = "markRangeHot" =>
    LoadsAndLeases(markRangeHot(Here, last.arg).ranges) = LoadsAndLeases(ranges)

\* C39: when toggleRegion(r) takes region r offline, no node of r is added to
\* the replicas of any range and no node of r becomes a leaseholder.
C39_RegionFailureUsesOtherRegions ==
  RegionTakenOffline =>
    \A i \in DOMAIN ranges :
      /\ \A id \in Elems(ranges[i].replicas) \ Elems(last.pre.ranges[i].replicas) :
           FindNode(nodes, id).region # last.arg
      /\ ranges[i].leaseholder # last.pre.ranges[i].leaseholder
           => FindNode(nodes, ranges[i].leaseholder).region # last.arg

\* a region with two nodes or more has just been taken offline, a replica of
\* it has been replaced and a lease has left it
C39_RegionFailureMovedBoth ==
  /\ RegionTakenOffline
  /\ Len(RegionNodes(nodes, last.arg)) > 1
  /\ \E i \in DOMAIN ranges :
       Elems(ranges[i].replicas) # Elems(last.pre.ranges[i].replicas)
  /\ \E i \in DOMAIN ranges : ranges[i].leaseholder # last.pre.ranges[i].leaseholder

\* C40: after the opportunistic pass of a node recovery, the recovering node
\* holds no more replicas than any node from which the pass removed a replica.
C40_PassDoesNotOvershoot ==
  RecoveredFullyReplicated =>
    \A i \in DOMAIN ranges : \A k \in Moved(i) :
      ReplicasOn(ranges, last.arg) <= ReplicasOn(ranges, last.pre.ranges[i].replicas[k])

====
